---------------------------- MODULE Spec2Model ----------------------------
(***************************************************************************)
(* A model of the two utilities of the repository:                         *)
(*   - the feed scraper, scrape_shorts (scraper.py), as a sequential       *)
(*     process over a headless browser whose rendered DOM changes while    *)
(*     the script waits;                                                   *)
(*   - the media fetcher, YouTubeDownloader (downloader.py), as a set of   *)
(*     constructed instances, a filesystem, and one call in flight whose   *)
(*     engine invocation returns, raises or reports progress.              *)
(* Strings are sequences of one-character strings, so that substring       *)
(* tests, replacement, concatenation and ordering are computed.            *)
(***************************************************************************)
EXTENDS Integers, Sequences, FiniteSets, TLC

VARIABLES
    \* ---- scraper.py
    spc,        \* position of scrape_shorts
    pw,         \* the async_playwright() context: "none", "active", "stopped"
    browser,    \* "none", "open", "closed" (closed only by browser.close())
    i,          \* iterations of the scroll loop completed
    wheels,     \* page.mouse.wheel calls dispatched
    waits,      \* page.wait_for_timeout calls completed
    dom,        \* anchor targets of the rendered DOM, in document order
    seen,       \* history: anchor targets rendered after any iteration so far
    links,      \* result of eval_on_selector_all, NoLinks before it ran
    stdout,     \* lines printed by the scraper
    \* ---- downloader.py
    fs,         \* the filesystem: each path is "absent", a "dir" or a "file"
    instances,  \* output_path of every constructed YouTubeDownloader
    ctorCall,   \* the last constructor call: path, what was there, error
    call,       \* the call whose engine invocation is in flight, or NoCall
    outcome,    \* how the last completed call ended
    hookCall    \* the last invocation of _progress_hook

svars == <<spc, pw, browser, i, wheels, waits, dom, seen, links, stdout>>

fvars == <<fs, instances, ctorCall, call, outcome, hookCall>>

vars == <<svars, fvars>>

----------------------------------------------------------------------------
\* Bounds of the model

\* longest list of anchors the rendered DOM holds
MaxAnchors == 3

----------------------------------------------------------------------------
\* Strings

\* the characters the model's strings use, in code-point order
AsciiOrder ==
    <<" ", "%", "(", ")", "+", ".", "/",
      "0", "1", "2", "3", "4", "5", "6", "7", "8", "9", ":", "<", "=",
      "D", "F", "K", "P", "[", "]",
      "a", "b", "c", "d", "e", "f", "g", "h", "i", "j", "k", "l", "m",
      "n", "o", "p", "q", "r", "s", "t", "u", "v", "w", "x", "y", "z">>

Ord(c) == CHOOSE k \in 1..Len(AsciiOrder) : AsciiOrder[k] = c

\* Python's  a < b  on strings: code-point lexicographic order
RECURSIVE StrLess(_, _)
StrLess(a, b) ==
    IF b = <<>> THEN FALSE
    ELSE IF a = <<>> THEN TRUE
    ELSE IF Head(a) = Head(b) THEN StrLess(Tail(a), Tail(b))
    ELSE Ord(Head(a)) < Ord(Head(b))

StartsWith(s, pat) ==
    Len(pat) <= Len(s) /\ SubSeq(s, 1, Len(pat)) = pat

\* Python's  pat in s  on strings: scan the start positions left to right
RECURSIVE Contains(_, _)
Contains(s, pat) ==
    IF Len(s) < Len(pat) THEN FALSE
    ELSE IF StartsWith(s, pat) THEN TRUE
    ELSE Contains(Tail(s), pat)

Range(s) == {s[k] : k \in 1..Len(s)}

\* the sequences over S of length at most n
SeqsUpTo(S, n) == UNION {[1..k -> S] : k \in 0..n}

----------------------------------------------------------------------------
\* scraper.py

\* for _ in range(10)
ScrollIterations == 10

\* the substring of the filter
ShortsPattern == <<"/", "s", "h", "o", "r", "t", "s", "/">>

\* the hrefs a rendered feed page may hold: two shorts, a link that is not a
\* short, and the tab link, which lacks the trailing slash
Urls ==
    { <<"x", "/", "s", "h", "o", "r", "t", "s", "/", "1">>,
      <<"x", "/", "s", "h", "o", "r", "t", "s", "/", "2">>,
      <<"x", "/", "o", "t", "h", "e", "r">>,
      <<"x", "/", "s", "h", "o", "r", "t", "s">> }

\* the anchors of a rendered DOM, duplicates included
DomStates == SeqsUpTo(Urls, MaxAnchors)

NoLinks == <<"unset">>

\* shorts = [x for x in links if '/shorts/' in x], without the filter
RECURSIVE ShortsOfUnfiltered(_)
ShortsOfUnfiltered(ls) ==
    IF ls = <<>> THEN <<>>
    ELSE <<Head(ls)>> \o ShortsOfUnfiltered(Tail(ls))

\* shorts = [x for x in links if '/shorts/' in x]
RECURSIVE ShortsOf(_)
ShortsOf(ls) ==
    IF ls = <<>> THEN <<>>
    ELSE IF Contains(Head(ls), ShortsPattern)
         THEN <<Head(ls)>> \o ShortsOf(Tail(ls))
         ELSE ShortsOf(Tail(ls))

\* the least string of a non-empty set
MinStr(S) == CHOOSE a \in S : \A b \in S \ {a} : StrLess(a, b)

\* sorted(S) for a set of strings
RECURSIVE SortedSet(_)
SortedSet(S) ==
    IF S = {} THEN <<>>
    ELSE LET m == MinStr(S) IN <<m>> \o SortedSet(S \ {m})

\* the for loop has another iteration, with an exit once a scroll loaded
\* nothing
LoopHasNextUntilEmpty == i < ScrollIterations /\ (i = 0 \/ dom # <<>>)

\* the for loop has another iteration
LoopHasNext == i < ScrollIterations

\* print("Found:", n)
FoundLine(n) == [found |-> n]

\* async with async_playwright() as p
EnterPlaywright ==
    /\ spc = "start"
    /\ pw' = "active"
    /\ spc' = "launch"
    /\ UNCHANGED <<browser, i, wheels, waits, dom, seen, links, stdout>>
    /\ UNCHANGED fvars

\* browser = await p.chromium.launch(headless=True)
Launch ==
    /\ spc = "launch"
    /\ browser' = "open"
    /\ spc' = "new_page"
    /\ UNCHANGED <<pw, i, wheels, waits, dom, seen, links, stdout>>
    /\ UNCHANGED fvars

\* page = await browser.new_page()
NewPage ==
    /\ spc = "new_page"
    /\ spc' = "goto"
    /\ UNCHANGED <<pw, browser, i, wheels, waits, dom, seen, links, stdout>>
    /\ UNCHANGED fvars

\* await page.goto(URL, timeout=0): the page renders its first anchors
Goto ==
    /\ spc = "goto"
    /\ \E d \in DomStates : dom' = d
    /\ spc' = "loop"
    /\ UNCHANGED <<pw, browser, i, wheels, waits, seen, links, stdout>>
    /\ UNCHANGED fvars

\* await page.mouse.wheel(0, 2000)
Wheel ==
    /\ spc = "loop"
    /\ LoopHasNext
    /\ wheels' = wheels + 1
    /\ spc' = "wait"
    /\ UNCHANGED <<pw, browser, i, waits, dom, seen, links, stdout>>
    /\ UNCHANGED fvars

\* await page.wait_for_timeout(1000): the page injects or drops content
\* while the script is suspended; the DOM after the wait is the rendered
\* state of this iteration
Wait ==
    /\ spc = "wait"
    /\ \E d \in DomStates :
         /\ dom' = d
         /\ seen' = seen \cup Range(d)
    /\ waits' = waits + 1
    /\ i' = i + 1
    /\ spc' = "loop"
    /\ UNCHANGED <<pw, browser, wheels, links, stdout>>
    /\ UNCHANGED fvars

\* links = await page.eval_on_selector_all("a", "els => els.map(e => e.href)")
Extract ==
    /\ spc = "loop"
    /\ ~LoopHasNext
    /\ links' = dom
    /\ spc' = "print"
    /\ UNCHANGED <<pw, browser, i, wheels, waits, dom, seen, stdout>>
    /\ UNCHANGED fvars

\* shorts = [...]; print("Found:", len(shorts));
\* for s in sorted(set(shorts)): print(s)
PrintShorts ==
    /\ spc = "print"
    /\ LET shorts == ShortsOf(links)
       IN  stdout' = <<FoundLine(Len(shorts))>> \o SortedSet(Range(shorts))
    /\ spc' = "close"
    /\ UNCHANGED <<pw, browser, i, wheels, waits, dom, seen, links>>
    /\ UNCHANGED fvars

\* await browser.close()
Close ==
    /\ spc = "close"
    /\ browser' = "closed"
    /\ spc' = "exit"
    /\ UNCHANGED <<pw, i, wheels, waits, dom, seen, links, stdout>>
    /\ UNCHANGED fvars

\* the async with block ends normally
ExitPlaywright ==
    /\ spc = "exit"
    /\ pw' = "stopped"
    /\ spc' = "done"
    /\ UNCHANGED <<browser, i, wheels, waits, dom, seen, links, stdout>>
    /\ UNCHANGED fvars

\* an awaited browser call raises: the exception leaves the async with block,
\* whose exit stops the playwright context, and then scrape_shorts; no
\* statement after the raising one runs
StepRaises ==
    /\ spc \in {"launch", "new_page", "goto", "loop", "wait", "close"}
    /\ pw' = "stopped"
    /\ spc' = "raised"
    /\ UNCHANGED <<browser, i, wheels, waits, dom, seen, links, stdout>>
    /\ UNCHANGED fvars

ScraperInit ==
    /\ spc = "start"
    /\ pw = "none"
    /\ browser = "none"
    /\ i = 0
    /\ wheels = 0
    /\ waits = 0
    /\ dom = <<>>
    /\ seen = {}
    /\ links = NoLinks
    /\ stdout = <<>>

ScraperNext ==
    \/ EnterPlaywright
    \/ Launch
    \/ NewPage
    \/ Goto
    \/ Wheel
    \/ Wait
    \/ Extract
    \/ PrintShorts
    \/ Close
    \/ ExitPlaywright
    \/ StepRaises

----------------------------------------------------------------------------
\* downloader.py

\* longest quality string drawn from QualityChars
MaxQualityLen == 3

\* longest message of an error the engine raises
MaxMsgLen == 2

\* Python's None
NoneVal == "None"

\* d.get(k, default) on a dict
Get(d, k, default) == IF k \in DOMAIN d THEN d[k] ELSE default

\* d.get(k) on a dict
GetOrNone(d, k) == Get(d, k, NoneVal)

\* a path is the sequence of its components below the working directory
AllPaths == { <<"videos">>, <<"videos", "mine">> }

Parent(p) == SubSeq(p, 1, Len(p) - 1)

\* what is at p: the working directory itself is a directory
Kind(f, p) == IF p = <<>> THEN "dir" ELSE f[p]

\* the filesystems in which whatever exists lies in a directory
FsStates ==
    { f \in [AllPaths -> {"absent", "dir", "file"}] :
        \A p \in AllPaths : f[p] # "absent" => Kind(f, Parent(p)) = "dir" }

\* a constructor that does not create the directory
MkdirSkipped(f, p) == [error |-> "none", fs |-> f]

\* Path(p).mkdir(exist_ok=True): no parents are created, an existing
\* directory is accepted, an existing file is not
Mkdir(f, p) ==
    IF Kind(f, p) = "dir" THEN [error |-> "none", fs |-> f]
    ELSE IF Kind(f, p) = "file" THEN [error |-> "FileExistsError", fs |-> f]
    ELSE IF Kind(f, Parent(p)) = "absent"
         THEN [error |-> "FileNotFoundError", fs |-> f]
    ELSE IF Kind(f, Parent(p)) = "file"
         THEN [error |-> "NotADirectoryError", fs |-> f]
    ELSE [error |-> "none", fs |-> [f EXCEPT ![p] = "dir"]]

Best == <<"b", "e", "s", "t">>
Worst == <<"w", "o", "r", "s", "t">>

\* the quality arguments: the two literals, heights as the docstring writes
\* them, and every short string over a digit and "p"
QualityChars == {"7", "p"}

Qualities ==
    {Best, Worst, <<"7", "2", "0", "p">>, <<"1", "0", "8", "0", "p">>}
        \cup SeqsUpTo(QualityChars, MaxQualityLen)

\* s.replace(old, new) for a one-character old: every occurrence is replaced
RECURSIVE Replace(_, _, _)
Replace(s, old, new) ==
    IF s = <<>> THEN <<>>
    ELSE IF Head(s) = old THEN new \o Replace(Tail(s), old, new)
    ELSE <<Head(s)>> \o Replace(Tail(s), old, new)

\* the height taken from the quality argument, used as it was given
QualityHeightVerbatim(quality) == quality

\* quality.replace("p", "")
QualityHeight(quality) == Replace(quality, "p", <<>>)

\* the format selector of download when audio_only is false
DownloadVideoFormat(quality) ==
    IF quality = Best THEN
        <<"b", "e", "s", "t", "v", "i", "d", "e", "o", "+", "b", "e", "s",
          "t", "a", "u", "d", "i", "o", "/", "b", "e", "s", "t">>
    ELSE IF quality = Worst THEN <<"w", "o", "r", "s", "t">>
    ELSE
        <<"b", "e", "s", "t", "v", "i", "d", "e", "o", "[", "h", "e", "i",
          "g", "h", "t", "<", "=">> \o QualityHeight(quality) \o <<"]", "+",
          "b", "e", "s", "t", "a", "u", "d", "i", "o", "/", "b", "e", "s",
          "t">>

\* the format selector of download_playlist when audio_only is false
PlaylistVideoFormat(quality) ==
    IF quality = Best THEN
        <<"b", "e", "s", "t", "v", "i", "d", "e", "o", "+", "b", "e", "s",
          "t", "a", "u", "d", "i", "o", "/", "b", "e", "s",
          "t">> ELSE quality

\* the audio options with another bitrate
AudioUpdateLowBitrate ==
    [format |->
        <<"b", "e", "s", "t", "a", "u", "d", "i", "o", "/", "b", "e", "s",
          "t">>,
     postprocessors |->
        << [key |-> "FFmpegExtractAudio",
            preferredcodec |-> <<"m", "p", "3">>,
            preferredquality |-> <<"1", "2", "8">>] >>]

\* the update of ydl_opts by download when audio_only is true
DownloadAudioUpdate ==
    [format |->
        <<"b", "e", "s", "t", "a", "u", "d", "i", "o", "/", "b", "e", "s",
          "t">>,
     postprocessors |->
        << [key |-> "FFmpegExtractAudio",
            preferredcodec |-> <<"m", "p", "3">>,
            preferredquality |-> <<"1", "9", "2">>] >>]

\* the update of ydl_opts by download_playlist when audio_only is true
PlaylistAudioUpdate ==
    [format |->
        <<"b", "e", "s", "t", "a", "u", "d", "i", "o", "/", "b", "e", "s",
          "t">>,
     postprocessors |->
        << [key |-> "FFmpegExtractAudio",
            preferredcodec |-> <<"m", "p", "3">>,
            preferredquality |-> <<"1", "9", "2">>] >>]

\* ydl_opts of download; an update overrides the keys it names
DownloadOpts(self, quality, audio_only, progress) ==
    LET base == [outtmpl |-> self \o <<"%(title)s.%(ext)s">>,
                 progress_hooks |->
                    IF progress THEN <<"_progress_hook">> ELSE <<>>]
    IN  IF audio_only THEN DownloadAudioUpdate @@ base
        ELSE [format |-> DownloadVideoFormat(quality)] @@ base

\* ydl_opts of download_playlist
PlaylistOpts(self, quality, audio_only) ==
    LET base == [outtmpl |-> self \o <<"%(playlist)s", "%(title)s.%(ext)s">>,
                 progress_hooks |-> <<"_progress_hook">>]
    IN  IF audio_only THEN PlaylistAudioUpdate @@ base
        ELSE [format |-> PlaylistVideoFormat(quality)] @@ base

\* ydl_opts of get_info
InfoOpts == [quiet |-> TRUE]

NoCall ==
    [op |-> "none", self |-> <<>>, quality |-> <<>>, audio_only |-> FALSE,
     progress |-> FALSE, ydl_opts |-> <<>>]

InFlight == call.op # "none"

\* what the engine may return from extract_info: a dict with every key the
\* module reads, or one with none of them
InfoFull ==
    [title |-> "T", duration |-> "60", uploader |-> "U",
     description |-> "D", view_count |-> "7", thumbnail |-> "J",
     formats |-> << [format_id |-> "18", ext |-> "mp4"] >>,
     entries |-> << [title |-> "E", webpage_url |-> "W"], <<>> >>]

InfoBare == <<>>

Infos == {InfoFull, InfoBare}

\* ydl.prepare_filename(info): the engine's expansion of the template
PrepareFilename(opts, info) ==
    [outtmpl |-> opts.outtmpl, title |-> GetOrNone(info, "title")]

\* the dict download returns
DownloadResult(opts, info) ==
    [title |-> GetOrNone(info, "title"),
     duration |-> GetOrNone(info, "duration"),
     uploader |-> GetOrNone(info, "uploader"),
     file_path |-> PrepareFilename(opts, info)]

\* the dict get_info returns
InfoResult(info) ==
    LET fmts == Get(info, "formats", <<>>)
    IN  [title |-> GetOrNone(info, "title"),
         duration |-> GetOrNone(info, "duration"),
         uploader |-> GetOrNone(info, "uploader"),
         description |-> GetOrNone(info, "description"),
         view_count |-> GetOrNone(info, "view_count"),
         thumbnail |-> GetOrNone(info, "thumbnail"),
         formats |-> [k \in 1..Len(fmts) |->
                        [format_id |-> GetOrNone(fmts[k], "format_id"),
                         ext |-> GetOrNone(fmts[k], "ext"),
                         resolution |-> GetOrNone(fmts[k], "resolution"),
                         filesize |-> GetOrNone(fmts[k], "filesize")]]]

\* the list download_playlist returns
PlaylistResult(info) ==
    LET entries == Get(info, "entries", <<>>)
    IN  [k \in 1..Len(entries) |->
            [title |-> GetOrNone(entries[k], "title"),
             url |-> GetOrNone(entries[k], "webpage_url")]]

ResultOf(c, info) ==
    IF c.op = "download" THEN DownloadResult(c.ydl_opts, info)
    ELSE IF c.op = "get_info" THEN InfoResult(info)
    ELSE PlaylistResult(info)

\* the errors of the engine, subclasses of Exception, and the interrupt of
\* the user, which is not one
EngineErrors == {"DownloadError", "ExtractorError"}

ExceptionSubclasses == EngineErrors \cup {"KeyError"}

RaisedClasses == EngineErrors \cup {"KeyboardInterrupt"}

MsgChars == {"e", " "}

Messages == SeqsUpTo(MsgChars, MaxMsgLen)

\* the text each operation puts before str(e)
FailurePrefix(op) ==
    IF op = "download" THEN
        <<"D", "o", "w", "n", "l", "o", "a", "d", " ", "f", "a", "i", "l",
          "e", "d", ":", " ">>
    ELSE IF op = "get_info" THEN
        <<"F", "a", "i", "l", "e", "d", " ", "t", "o", " ", "g", "e", "t",
          " ", "i", "n", "f", "o", ":", " ">>
    ELSE
        <<"P", "l", "a", "y", "l", "i", "s", "t", " ", "d", "o", "w", "n",
          "l", "o", "a", "d", " ", "f", "a", "i", "l", "e", "d", ":", " ">>

NoValue == "no value"

NoOutcome ==
    [kind |-> "none", class |-> "", msg |-> <<>>, value |-> NoValue,
     op |-> "none", causeClass |-> "", causeMsg |-> <<>>]

\* a handler that names the failure and drops the cause
RaisedByHandlerWithoutCause(op, cls, msg) ==
    IF cls \in ExceptionSubclasses
    THEN [class |-> "Exception", msg |-> FailurePrefix(op)]
    ELSE [class |-> cls, msg |-> msg]

\* except Exception as e: raise Exception(f"<prefix>{str(e)}"); what is not
\* an Exception passes through
RaisedByHandler(op, cls, msg) ==
    IF cls \in ExceptionSubclasses
    THEN [class |-> "Exception", msg |-> FailurePrefix(op) \o msg]
    ELSE [class |-> cls, msg |-> msg]

\* how a call ends when cls(msg) is raised inside its try block
RaiseOutcome(op, cls, msg) ==
    LET r == RaisedByHandler(op, cls, msg)
    IN  [kind |-> "raise", class |-> r.class, msg |-> r.msg,
         value |-> NoValue, op |-> op, causeClass |-> cls, causeMsg |-> msg]

\* the progress events of the engine: a status, and the display strings,
\* each of which may be missing
Statuses == {"downloading", "finished", "error"}

DisplayFields ==
    [_percent_str |-> "50%", _speed_str |-> "1MiB/s", _eta_str |-> "00:09"]

Events ==
    { [status |-> st] @@ [k \in K |-> DisplayFields[k]] :
        st \in Statuses, K \in SUBSET DOMAIN DisplayFields }

NoLine == <<>>

\* a hook that indexes the display strings
ProgressHookIndexing(d) ==
    IF "status" \notin DOMAIN d
    THEN [raised |-> "KeyError", key |-> "status", printed |-> NoLine]
    ELSE IF d.status = "downloading"
    THEN IF DOMAIN DisplayFields \subseteq DOMAIN d
         THEN [raised |-> "none", key |-> "",
               printed |-> <<"\rDownloading: ", d._percent_str, " at ",
                             d._speed_str, " ETA: ", d._eta_str>>]
         ELSE [raised |-> "KeyError", key |-> "_percent_str",
               printed |-> NoLine]
    ELSE IF d.status = "finished"
    THEN [raised |-> "none", key |-> "",
          printed |-> <<"\nDownload complete, processing...">>]
    ELSE [raised |-> "none", key |-> "", printed |-> NoLine]

\* _progress_hook(d): d['status'] raises KeyError when the key is missing
ProgressHook(d) ==
    IF "status" \notin DOMAIN d
    THEN [raised |-> "KeyError", key |-> "status", printed |-> NoLine]
    ELSE IF d.status = "downloading"
    THEN [raised |-> "none", key |-> "",
          printed |-> <<"\rDownloading: ", Get(d, "_percent_str", "N/A"),
                        " at ", Get(d, "_speed_str", "N/A"),
                        " ETA: ", Get(d, "_eta_str", "N/A")>>]
    ELSE IF d.status = "finished"
    THEN [raised |-> "none", key |-> "",
          printed |-> <<"\nDownload complete, processing...">>]
    ELSE [raised |-> "none", key |-> "", printed |-> NoLine]

NoHookCall == [event |-> <<>>, raised |-> "none", printed |-> NoLine]

NoCtorCall == [path |-> <<>>, before |-> "", error |-> "none"]

\* YouTubeDownloader(output_path=p)
Construct(p) ==
    /\ ~InFlight
    /\ LET r == Mkdir(fs, p)
       IN  /\ fs' = r.fs
           /\ ctorCall' =
                [path |-> p, before |-> Kind(fs, p), error |-> r.error]
           /\ instances' =
                IF r.error = "none" THEN instances \cup {p} ELSE instances
    /\ UNCHANGED <<call, outcome, hookCall>>
    /\ UNCHANGED svars

\* self.download(url, quality, audio_only, progress), up to the call of
\* ydl.extract_info
Download(self, quality, audio_only, progress) ==
    /\ ~InFlight
    /\ self \in instances
    /\ call' = [op |-> "download", self |-> self, quality |-> quality,
                audio_only |-> audio_only, progress |-> progress,
                ydl_opts |-> DownloadOpts(self, quality, audio_only, progress)]
    /\ outcome' = NoOutcome
    /\ UNCHANGED <<fs, instances, ctorCall, hookCall>>
    /\ UNCHANGED svars

\* self.get_info(url), up to the call of ydl.extract_info
GetInfo(self) ==
    /\ ~InFlight
    /\ self \in instances
    /\ call' = [op |-> "get_info", self |-> self, quality |-> <<>>,
                audio_only |-> FALSE, progress |-> FALSE,
                ydl_opts |-> InfoOpts]
    /\ outcome' = NoOutcome
    /\ UNCHANGED <<fs, instances, ctorCall, hookCall>>
    /\ UNCHANGED svars

\* self.download_playlist(url, quality, audio_only), up to the call of
\* ydl.extract_info
DownloadPlaylist(self, quality, audio_only) ==
    /\ ~InFlight
    /\ self \in instances
    /\ call' = [op |-> "download_playlist", self |-> self,
                quality |-> quality, audio_only |-> audio_only,
                progress |-> TRUE,
                ydl_opts |-> PlaylistOpts(self, quality, audio_only)]
    /\ outcome' = NoOutcome
    /\ UNCHANGED <<fs, instances, ctorCall, hookCall>>
    /\ UNCHANGED svars

\* the engine calls a hook of ydl_opts['progress_hooks']; an exception of
\* the hook leaves extract_info and reaches the except clause of the call
ProgressTick(ev) ==
    /\ InFlight
    /\ Get(call.ydl_opts, "progress_hooks", <<>>) # <<>>
    /\ LET r == ProgressHook(ev)
       IN  /\ hookCall' = [event |-> ev, raised |-> r.raised,
                           printed |-> r.printed]
           /\ IF r.raised = "none"
              THEN UNCHANGED <<call, outcome>>
              ELSE /\ outcome' = RaiseOutcome(call.op, r.raised, <<r.key>>)
                   /\ call' = NoCall
    /\ UNCHANGED <<fs, instances, ctorCall>>
    /\ UNCHANGED svars

\* extract_info returns info; the call returns its result
EngineReturns(info) ==
    /\ InFlight
    /\ outcome' = [kind |-> "return", class |-> "", msg |-> <<>>,
                   value |-> ResultOf(call, info), op |-> call.op,
                   causeClass |-> "", causeMsg |-> <<>>]
    /\ call' = NoCall
    /\ UNCHANGED <<fs, instances, ctorCall, hookCall>>
    /\ UNCHANGED svars

\* extract_info raises cls(msg) inside the try block of the call
EngineRaises(cls, msg) ==
    /\ InFlight
    /\ outcome' = RaiseOutcome(call.op, cls, msg)
    /\ call' = NoCall
    /\ UNCHANGED <<fs, instances, ctorCall, hookCall>>
    /\ UNCHANGED svars

----------------------------------------------------------------------------
\* Specifications

FetcherIdle ==
    /\ instances = {}
    /\ ctorCall = NoCtorCall
    /\ call = NoCall
    /\ outcome = NoOutcome
    /\ hookCall = NoHookCall

FetcherInit ==
    /\ fs \in FsStates
    /\ FetcherIdle

FetcherNext ==
    \/ \E p \in AllPaths : Construct(p)
    \/ \E self \in AllPaths, q \in Qualities, a \in BOOLEAN, g \in BOOLEAN :
         Download(self, q, a, g)
    \/ \E self \in AllPaths : GetInfo(self)
    \/ \E self \in AllPaths, q \in Qualities, a \in BOOLEAN :
         DownloadPlaylist(self, q, a)
    \/ \E ev \in Events : ProgressTick(ev)
    \/ \E info \in Infos : EngineReturns(info)
    \/ \E cls \in RaisedClasses, msg \in Messages : EngineRaises(cls, msg)

\* the scraper script is run once; no downloader exists
InitScraperRun ==
    /\ ScraperInit
    /\ fs = [p \in AllPaths |-> "absent"]
    /\ FetcherIdle

SpecScraper == InitScraperRun /\ [][ScraperNext]_vars

\* a program uses downloader.py, from any filesystem; the scraper is not run
InitFetcherRun ==
    /\ FetcherInit
    /\ ScraperInit

SpecFetcher == InitFetcherRun /\ [][FetcherNext]_vars

----------------------------------------------------------------------------
\* Claims about scraper.py

\* the URL lines printed after the count line
UrlLines == IF stdout = <<>> THEN <<>> ELSE Tail(stdout)

\* the scraper has printed its output
Printed == stdout # <<>>

\* u has "/shorts/" at some offset
HasShortsSegment(u) ==
    \E k \in 1..Len(u) :
        /\ k + Len(ShortsPattern) - 1 <= Len(u)
        /\ SubSeq(u, k, k + Len(ShortsPattern) - 1) = ShortsPattern

\* C1 (as stated): every run that launched the browser has executed
\* browser.close() by the time it ends, whether it ended normally or by an
\* error raised in navigation, a scroll, a wait or the extraction.
C1_BrowserClosedAtEnd ==
    (spc \in {"done", "raised"} /\ browser # "none") => browser = "closed"

\* C7 (as stated): the URLs emitted are exactly the anchor targets containing
\* "/shorts/" that were rendered after any of the scroll iterations of the
\* run, each once, in sorted order.
C7_EmitsUnionOfAllStates ==
    Printed =>
        /\ Range(UrlLines) = {u \in seen : HasShortsSegment(u)}
        /\ \A a, b \in 1..Len(UrlLines) :
               a < b => StrLess(UrlLines[a], UrlLines[b])

\* C7 (amended): the URLs emitted are exactly the anchor targets containing
\* "/shorts/" of the DOM rendered after the last scroll iteration, each
\* emitted once, in lexicographically sorted order.
C7_EmitsShortsOfFinalDom ==
    Printed =>
        /\ Range(UrlLines) = {u \in Range(dom) : HasShortsSegment(u)}
        /\ \A a, b \in 1..Len(UrlLines) :
               a < b => StrLess(UrlLines[a], UrlLines[b])

\* C7 witness: output was printed for a final DOM holding two shorts in
\* descending order, one of them twice, after an earlier iteration had shown
\* a link the final DOM no longer holds.
C7_Witness ==
    /\ Printed
    /\ Len(dom) = 3
    /\ dom[1] = dom[3]
    /\ HasShortsSegment(dom[1]) /\ HasShortsSegment(dom[2])
    /\ StrLess(dom[2], dom[1])
    /\ Len(UrlLines) = 2
    /\ seen \ Range(dom) # {}

\* C8: wheel and wait alternate, a wheel being dispatched only when every
\* earlier wheel has had its wait; extraction has run only after ten wheels
\* and ten waits; a run that ends without an error has performed exactly ten
\* of each, whatever the page rendered.
C8_ExactlyTenScrolls ==
    /\ wheels \in {waits, waits + 1}
    /\ wheels = waits + 1 => spc \in {"wait", "raised"}
    /\ spc = "wait" => wheels = waits + 1
    /\ links # NoLinks => wheels = ScrollIterations /\ waits = ScrollIterations
    /\ spc \in {"print", "close", "exit", "done"} =>
           /\ links # NoLinks
           /\ wheels = ScrollIterations
           /\ waits = ScrollIterations

\* C8 witness: a run ended normally in which no iteration rendered any
\* anchor, and ten scrolls were performed all the same.
C8_Witness ==
    /\ spc = "done"
    /\ seen = {}
    /\ wheels = ScrollIterations
    /\ waits = ScrollIterations

\* C10 (as stated): the number on the "Found:" line equals the number of URL
\* lines printed after it.
C10_FoundEqualsUrlLines ==
    Printed => stdout[1].found = Len(UrlLines)

----------------------------------------------------------------------------
\* Claims about downloader.py

\* sub occurs in s at some offset
HasSubstring(s, sub) ==
    \E k \in 0..(Len(s) - Len(sub)) : SubSeq(s, k + 1, k + Len(sub)) = sub

\* the selectors the claims name, written out
ExpectBestSelector ==
    <<"b", "e", "s", "t", "v", "i", "d", "e", "o", "+", "b", "e", "s", "t",
      "a", "u", "d", "i", "o", "/", "b", "e", "s", "t">>

ExpectCapOpen ==
    <<"b", "e", "s", "t", "v", "i", "d", "e", "o", "[", "h", "e", "i", "g",
      "h", "t", "<", "=">>

ExpectCapClose ==
    <<"]", "+", "b", "e", "s", "t", "a", "u", "d", "i", "o", "/", "b", "e",
      "s", "t">>

ExpectAudioSelector ==
    <<"b", "e", "s", "t", "a", "u", "d", "i", "o", "/", "b", "e", "s", "t">>

IsDigit(c) == c \in {"0", "1", "2", "3", "4", "5", "6", "7", "8", "9"}

\* a download or a playlist download has handed its options to the engine
Downloading == InFlight /\ call.op \in {"download", "download_playlist"}

\* C2: when the engine raises one of its errors inside download, get_info or
\* download_playlist, what reaches the caller is an Exception and none of
\* the engine's classes, its message holds the engine's message as a
\* substring, and the call yields no value.
C2_EngineErrorsWrapped ==
    (outcome.kind = "raise" /\ outcome.causeClass \in EngineErrors) =>
        /\ outcome.class = "Exception"
        /\ outcome.class \notin EngineErrors
        /\ HasSubstring(outcome.msg, outcome.causeMsg)
        /\ Len(outcome.msg) > Len(outcome.causeMsg)
        /\ outcome.value = NoValue

\* C2 witness: a playlist download ended by an ExtractorError of the engine
\* with a message of two characters.
C2_Witness ==
    /\ outcome.kind = "raise"
    /\ outcome.op = "download_playlist"
    /\ outcome.causeClass = "ExtractorError"
    /\ Len(outcome.causeMsg) = 2

\* C3: whenever download or download_playlist has handed its options to the
\* engine, the output directory of the instance exists as a directory; and
\* a constructor that found the directory present raised nothing and left it
\* a directory.
C3_OutputDirExists ==
    /\ Downloading => fs[call.self] = "dir"
    /\ ctorCall.before = "dir" =>
           ctorCall.error = "none" /\ fs[ctorCall.path] = "dir"

\* C3 witness: a download is at the engine for an instance whose constructor
\* found the directory absent.
C3_Witness ==
    /\ InFlight
    /\ call.op = "download"
    /\ ctorCall.path = call.self
    /\ ctorCall.before = "absent"

\* C4: download with audio_only false builds, for a quality of digits
\* followed by "p", the selector "bestvideo[height<=N]+bestaudio/best" with N
\* those digits; for "best" the selector "bestvideo+bestaudio/best"; for
\* "worst" the selector "worst".
C4_VideoFormatOfQuality ==
    (InFlight /\ call.op = "download" /\ ~call.audio_only) =>
        LET q == call.quality
            fmt == call.ydl_opts.format
        IN  /\ q = <<"b", "e", "s", "t">> => fmt = ExpectBestSelector
            /\ q = <<"w", "o", "r", "s", "t">> => fmt = <<"w", "o", "r", "s", "t">>
            /\ ( /\ Len(q) >= 2
                 /\ q[Len(q)] = "p"
                 /\ \A k \in 1..(Len(q) - 1) : IsDigit(q[k]) ) =>
                   fmt = ExpectCapOpen \o SubSeq(q, 1, Len(q) - 1) \o ExpectCapClose

\* C4 witness: a video download of quality "720p" is at the engine.
C4_Witness ==
    /\ InFlight
    /\ call.op = "download"
    /\ ~call.audio_only
    /\ call.quality = <<"7", "2", "0", "p">>

\* C5 (as stated): the options of download_playlist have the format selector,
\* the post-processing directives and the hooks of download called with the
\* same quality and audio_only, and an output template that is download's
\* with a playlist segment between the directory and the file name.
C5_PlaylistOptsAsDownload ==
    (InFlight /\ call.op = "download_playlist") =>
        LET d == DownloadOpts(call.self, call.quality, call.audio_only, TRUE)
            o == call.ydl_opts
        IN  /\ o.format = d.format
            /\ Get(o, "postprocessors", <<>>) = Get(d, "postprocessors", <<>>)
            /\ o.progress_hooks = d.progress_hooks
            /\ o.outtmpl =
                 call.self \o <<"%(playlist)s">>
                     \o SubSeq(d.outtmpl, Len(call.self) + 1, Len(d.outtmpl))

\* C6: no invocation of the progress hook by the engine raised, none ended a
\* call with a KeyError, and a "downloading" event was displayed with "N/A"
\* in the place of each of percent, speed and eta that it lacks.
C6_HookNeverRaises ==
    LET ev == hookCall.event
        shown(k) == IF k \in DOMAIN ev THEN ev[k] ELSE "N/A"
    IN  /\ hookCall.raised = "none"
        /\ outcome.causeClass # "KeyError"
        /\ ("status" \in DOMAIN ev /\ ev.status = "downloading") =>
               hookCall.printed =
                   <<"\rDownloading: ", shown("_percent_str"), " at ",
                     shown("_speed_str"), " ETA: ", shown("_eta_str")>>
        /\ ("status" \in DOMAIN ev /\ ev.status = "error") =>
               hookCall.printed = NoLine

\* C6 witness: the hook was called with a "downloading" event that has no
\* display string at all, and the call is still at the engine.
C6_Witness ==
    /\ InFlight
    /\ DOMAIN hookCall.event = {"status"}
    /\ hookCall.event.status = "downloading"

\* C9: with audio_only true, download and download_playlist select
\* "bestaudio/best" and ask for FFmpegExtractAudio to mp3 at 192, whatever
\* the quality argument is.
C9_AudioOnlyOpts ==
    (Downloading /\ call.audio_only) =>
        /\ call.ydl_opts.format = ExpectAudioSelector
        /\ "postprocessors" \in DOMAIN call.ydl_opts
        /\ call.ydl_opts.postprocessors =
             << [key |-> "FFmpegExtractAudio",
                 preferredcodec |-> <<"m", "p", "3">>,
                 preferredquality |-> <<"1", "9", "2">>] >>

\* C9 witness: an audio-only playlist download of quality "720p" is at the
\* engine.
C9_Witness ==
    /\ InFlight
    /\ call.op = "download_playlist"
    /\ call.audio_only
    /\ call.quality = <<"7", "2", "0", "p">>

=============================================================================
